---- MODULE Spec2Model ----
(***************************************************************************)
(* A model of hyperspy/signals/image.py (class Image): the dimension       *)
(* dispatch and trimming of peakfind_2D, the bookkeeping of                *)
(* kmeans_cluster_stack and the per-parent score overlays of plot_maps.    *)
(*                                                                         *)
(* Arrays are modelled with 0-based indices as in the source.  A 2-D frame *)
(* handed to the single-frame peak finder is represented by the sequence   *)
(* of peaks that are detectable on it, in discovery order; an array slice  *)
(* is named by its index expression, with -1 standing for ':'.             *)
(***************************************************************************)
EXTENDS Integers, Sequences, FiniteSets, TLC

\* ------------------------------------------------------------------ bounds
MaxImages == 2      \* images along the trailing axis of a 3-D stack
MaxFound == 2       \* peaks detectable on one frame
MaxPeakN == 2       \* values of the maxpeakn argument: 1..MaxPeakN
MaxStack == 3       \* members of the stack handed to kmeans_cluster_stack
MaxClusters == 2    \* values of the clusters argument: 1..MaxClusters
MaxMembers == 2     \* members of the stack whose scores plot_maps overlays
MaxFactors == 2     \* columns of the factor matrix handed to _plot_factors_or_pchars
NavSize == 2        \* navigation positions of the signal handed to estimate_parameters
Channels == 2       \* channels of its signal axis

\* ----------------------------------------------------------------- helpers
RECURSIVE SumSeq(_)
SumSeq(s) == IF s = <<>> THEN 0 ELSE Head(s) + SumSeq(Tail(s))

RECURSIVE MaxSeq(_)
MaxSeq(s) == IF s = <<>> THEN 0
             ELSE IF Head(s) > MaxSeq(Tail(s)) THEN Head(s) ELSE MaxSeq(Tail(s))

SetMin(S) == CHOOSE m \in S : \A o \in S : m <= o

\* xrange(n) as a sequence: <<0, 1, ..., n-1>>
xrange(n) == [k \in 1..n |-> k - 1]

\* ------------------------------------------------- peakfind_2D: input space
ALL == -1

\* pixel coordinates of a 3 x 3 frame that a peak may be reported at
Coords == {<<0, 0>>, <<1, 2>>, <<2, 1>>}

NoDup(s) == \A a, b \in DOMAIN s : a # b => s[a] # s[b]

\* what a frame can be: the distinct peaks detectable on it, in discovery order
PeakLists == UNION {{s \in [1..n -> Coords] : NoDup(s)} : n \in 0..MaxFound}

\* self.data.shape: ranks 1..5, the frames are 3 x 3
Shapes == {<<3>>, <<3, 3>>, <<2, 2, 3, 3>>, <<1, 2, 3, 3>>, <<1, 1, 1, 3, 3>>}
          \cup {<<3, 3, n>> : n \in 1..MaxImages}

VARIABLES
    shape,      \* self.data.shape
    frames,     \* self.data, as the frames read by the dispatch: slice -> frame
    maxpeakn,   \* the maxpeakn argument
    pc,         \* position in peakfind_2D: "start", "loop", "done", "raised"
    idx,        \* number of loop iterations completed
    has_peaks,  \* hasattr(self, 'peaks')
    peaks,      \* self.peaks: [shape, v], v[image key][slot + 1] = <<x, y>>
    calls,      \* the slices two_dim_findpeaks was invoked on, in order
    trim_id,    \* the trim index, -1 before it is computed
    err         \* the exception raised, "none" if none

peakVars == <<shape, frames, maxpeakn, pc, idx, has_peaks, peaks, calls, trim_id, err>>

VARIABLES
    d,               \* self.data: d[j + 1] is frame j of the stack
    clusters,        \* the clusters argument
    labels,          \* what the clustering primitive's label() returns
    aliased,         \* whether Image(dict) keeps the array it is given, or a copy
    kpc,             \* position in kmeans_cluster_stack: "start", "loop", "done"
    ki,              \* the cluster id of the next iteration
    groups,          \* the local groups
    avg_stack,       \* the local avg_stack: avg_stack[i + 1] is frame i
    cluster_arrays,  \* the local list cluster_arrays
    kresult,         \* the returned pair, once returned
    klocations,      \* mapped_parameters.locations of the stack: [has, entries]
    features,        \* the array handed to kmeans.train and kmeans.label
    kcluster_array   \* the local cluster_array of the last iteration

kmVars == <<d, clusters, labels, aliased, kpc, ki, groups, avg_stack, cluster_arrays, kresult,
            klocations, features, kcluster_array>>

VARIABLES
    method,          \* the plotting method called, by its name
    locations,       \* mapped_parameters.locations: per member [filename, position]
    peak_chars,      \* self.peak_chars: per member the 7 characteristics of peak 0
    md,              \* which attributes mapped_parameters has, and the order of
                     \*   original_files.keys()
    args,            \* the arguments of the call
    scores,          \* the local scores: scores[i + 1][m + 1], component i, member m
    ppc,             \* position in the call: "start", "components", "overlay",
                     \*   "done", "raised"
    ci,              \* components consumed by "for i in components"
    comps,           \* the local components after the None / int / list conversion
    scoremap,        \* the local scoremap
    parents,         \* the local parents: [bound, keys]
    scatters,        \* the scatter overlays drawn on parent images, in order
    perr             \* the exception the call raised, "none" if none

ovVars == <<method, locations, peak_chars, md, args, scores, ppc, ci, comps, scoremap,
            parents, scatters, perr>>

VARIABLES
    target_locations,  \* self.target_locations of the Image: [is_none, locs]
    peak_width,        \* self.peak_width of the Image: None or Some(width)
    found_on_average,  \* per peak width, the (x, y) rows the peak finder returns
                       \*   for the stack's average frame
    char_call          \* the call of peak_char_stack made on the Image, if any

imVars == <<target_locations, peak_width, found_on_average, char_call>>

VARIABLES
    plotted            \* the idx arguments of the imgdraw._plot_component calls made
                       \*   by _plot_factors_or_pchars, in order

pfVars == <<plotted>>

VARIABLES
    signal,            \* the signal handed to Offset.estimate_parameters
    offset,            \* the offset parameter of the component: [value, map]
    estimate           \* the call of estimate_parameters: its arguments, position
                       \*   and return value

offVars == <<signal, offset, estimate>>

rank == Len(shape)

\* the image keys the 3-D / 4-D loops visit, in loop order
ImageKeys(shp) ==
    IF Len(shp) = 3 THEN [k \in 1..shp[3] |-> <<k - 1>>]
    ELSE IF Len(shp) = 4
         THEN [k \in 1..(shp[1] * shp[2]) |-> <<(k - 1) \div shp[2], (k - 1) % shp[2]>>]
    ELSE <<>>

\* variant of FrameSlice: the frame of an image key is taken along the trailing axes
FrameSliceTrailing(shp, key) ==
    IF Len(shp) = 3 THEN <<ALL, ALL, key[1]>>
    ELSE <<ALL, ALL, key[1], key[2]>>

\* the slice of self.data that holds the frame of an image key
FrameSlice(shp, key) ==
    IF Len(shp) = 3 THEN <<ALL, ALL, key[1]>>
    ELSE <<key[1], key[2], ALL, ALL>>

\* the slices peakfind_2D reads for a given shape
CodeSlices(shp) ==
    IF Len(shp) = 2 THEN {<<ALL, ALL>>}
    ELSE {FrameSlice(shp, ImageKeys(shp)[k]) : k \in DOMAIN ImageKeys(shp)}

\* the single-frame peak finder (hyperspy.peak_char.two_dim_findpeaks): an
\* (n, 2) array of the peaks of the frame, in discovery order
two_dim_findpeaks(frame) == [n \in 1..Len(frame) |-> <<frame[n][1], frame[n][2]>>]

ZeroPeak == <<0, 0>>

\* np.zeros((maxpeakn, 2, N)) resp. np.zeros((maxpeakn, 2, N, M))
ZerosBuffer(cap, shp) ==
    [shape |-> IF Len(shp) = 3 THEN <<cap, 2, shp[3]>> ELSE <<cap, 2, shp[1], shp[2]>>,
     v |-> [key \in {ImageKeys(shp)[k] : k \in DOMAIN ImageKeys(shp)} |->
                [s \in 1..cap |-> ZeroPeak]]]

\* variant of WriteFrame: the image index is dropped and tmp goes to every image
WriteFrameAllImages(buf, key, tmp) ==
    [buf EXCEPT !.v = [k \in DOMAIN @ |->
                          [s \in DOMAIN @[k] |-> IF s <= Len(tmp) THEN tmp[s] ELSE @[k][s]]]]

\* self.peaks[:tmp.shape[0], :, key] = tmp   (tmp.shape[0] <= number of slots)
WriteFrame(buf, key, tmp) ==
    [buf EXCEPT !.v[key] = [s \in DOMAIN @ |-> IF s <= Len(tmp) THEN tmp[s] ELSE @[s]]]

\* np.sum(..., axis=<image axes>) then np.sum(..., axis=1), for slot s (1-based)
SumOverImages(buf, keys, s, c) == SumSeq([k \in DOMAIN keys |-> buf.v[keys[k]][s][c]])

SlotSum(buf, keys, s) == SumOverImages(buf, keys, s, 1) + SumOverImages(buf, keys, s, 2)

\* np.nonzero(<slot sums> == 0)[0], as 0-based slot indices
ZeroSlots(buf, keys) == {s - 1 : s \in {t \in 1..buf.shape[1] : SlotSum(buf, keys, t) = 0}}

\* variant of TrimIndex: the last zero slot instead of the first
TrimIndexLast(buf, keys) ==
    CHOOSE m \in ZeroSlots(buf, keys) : \A o \in ZeroSlots(buf, keys) : m >= o

\* np.min(np.nonzero(...)) of a non-empty index set
TrimIndex(buf, keys) == SetMin(ZeroSlots(buf, keys))

\* variant of Truncate: keeps the slot at the trim index as well
TruncateInclusive(buf, n) ==
    [shape |-> [buf.shape EXCEPT ![1] = n + 1],
     v |-> [key \in DOMAIN buf.v |-> SubSeq(buf.v[key], 1, n + 1)]]

\* self.peaks[:trim_id, ...]
Truncate(buf, n) ==
    [shape |-> [buf.shape EXCEPT ![1] = n],
     v |-> [key \in DOMAIN buf.v |-> SubSeq(buf.v[key], 1, n)]]

\* ----------------------------------------------------- peakfind_2D: actions
PeakInit ==
    /\ shape \in Shapes
    /\ frames \in [CodeSlices(shape) -> PeakLists]
    /\ maxpeakn \in 1..MaxPeakN
    /\ pc = "start"
    /\ idx = 0
    /\ has_peaks = FALSE
    /\ peaks = [shape |-> <<>>, v |-> <<>>]
    /\ calls = <<>>
    /\ trim_id = -1
    /\ err = "none"

\* len(self.data.shape)==2: self.peaks is the finder's result on the whole array
Find2D ==
    /\ UNCHANGED <<kmVars, ovVars, imVars, pfVars, offVars>>
    /\ pc = "start" /\ rank = 2
    /\ LET tmp == two_dim_findpeaks(frames[<<ALL, ALL>>])
       IN  peaks' = [shape |-> <<Len(tmp), 2>>, v |-> (<<>> :> tmp)]
    /\ has_peaks' = TRUE
    /\ calls' = Append(calls, <<ALL, ALL>>)
    /\ pc' = "done"
    /\ UNCHANGED <<shape, frames, maxpeakn, idx, trim_id, err>>

\* len(self.data.shape) in (3, 4): preallocate the buffer
Allocate ==
    /\ UNCHANGED <<kmVars, ovVars, imVars, pfVars, offVars>>
    /\ pc = "start" /\ rank \in {3, 4}
    /\ peaks' = ZerosBuffer(maxpeakn, shape)
    /\ has_peaks' = TRUE
    /\ pc' = "loop"
    /\ UNCHANGED <<shape, frames, maxpeakn, idx, calls, trim_id, err>>

\* no branch of the if/elif chain matches: the method falls through and returns
FallThrough ==
    /\ UNCHANGED <<kmVars, ovVars, imVars, pfVars, offVars>>
    /\ pc = "start" /\ rank \notin {2, 3, 4}
    /\ pc' = "done"
    /\ UNCHANGED <<shape, frames, maxpeakn, idx, has_peaks, peaks, calls, trim_id, err>>

\* one iteration of the loop over the images
FindImage ==
    /\ UNCHANGED <<kmVars, ovVars, imVars, pfVars, offVars>>
    /\ pc = "loop" /\ idx < Len(ImageKeys(shape))
    /\ LET key == ImageKeys(shape)[idx + 1]
           slice == FrameSlice(shape, key)
           tmp == two_dim_findpeaks(frames[slice])
       IN  /\ calls' = Append(calls, slice)
           /\ IF Len(tmp) <= peaks.shape[1]
              THEN /\ peaks' = WriteFrame(peaks, key, tmp)
                   /\ idx' = idx + 1
                   /\ UNCHANGED <<pc, err>>
              ELSE \* shapes (maxpeakn, 2) and (n, 2) do not broadcast
                   /\ err' = "ValueError"
                   /\ pc' = "raised"
                   /\ UNCHANGED <<peaks, idx>>
    /\ UNCHANGED <<shape, frames, maxpeakn, has_peaks, trim_id>>

\* the body of the loop over the images, run for any image not yet processed:
\* the iterations in an order other than the loop's
FindAnyImage ==
    /\ UNCHANGED <<kmVars, ovVars, imVars, pfVars, offVars>>
    /\ pc = "loop" /\ idx < Len(ImageKeys(shape))
    /\ \E k \in DOMAIN ImageKeys(shape) :
           LET key == ImageKeys(shape)[k]
               slice == FrameSlice(shape, key)
               tmp == two_dim_findpeaks(frames[slice])
           IN  /\ \A c \in DOMAIN calls : calls[c] # slice
               /\ calls' = Append(calls, slice)
               /\ IF Len(tmp) <= peaks.shape[1]
                  THEN /\ peaks' = WriteFrame(peaks, key, tmp)
                       /\ idx' = idx + 1
                       /\ UNCHANGED <<pc, err>>
                  ELSE /\ err' = "ValueError"
                       /\ pc' = "raised"
                       /\ UNCHANGED <<peaks, idx>>
    /\ UNCHANGED <<shape, frames, maxpeakn, has_peaks, trim_id>>

\* after the loop: compute trim_id and truncate
Trim ==
    /\ UNCHANGED <<kmVars, ovVars, imVars, pfVars, offVars>>
    /\ pc = "loop" /\ idx = Len(ImageKeys(shape))
    /\ IF ZeroSlots(peaks, ImageKeys(shape)) = {}
       THEN \* np.min of an empty array
            /\ err' = "ValueError"
            /\ pc' = "raised"
            /\ UNCHANGED <<peaks, trim_id>>
       ELSE /\ trim_id' = TrimIndex(peaks, ImageKeys(shape))
            /\ peaks' = Truncate(peaks, trim_id')
            /\ pc' = "done"
            /\ UNCHANGED err
    /\ UNCHANGED <<shape, frames, maxpeakn, idx, has_peaks, calls>>

\* ------------------------------------------- kmeans_cluster_stack: state
\* pixel values, and the frames of a stack of shape (N, 1, 2), row-major
\* the default None of the clusters argument, kept apart from the integers
ClustersNone == -1

Pixels == {0, 1}

KFrames == [1..2 -> Pixels]


\* np.zeros((H, W)) for the frames of the stack
UninitialisedFrame == [p \in 1..2 |-> 1]

ZeroFrame == [p \in 1..2 |-> 0]

\* groups.count(i)
RECURSIVE CountOf(_, _)
CountOf(g, i) ==
    IF g = <<>> THEN 0 ELSE (IF Head(g) = i THEN 1 ELSE 0) + CountOf(Tail(g), i)

\* the inner loop over j, copying d[-j-1] where the code copies d[j]
RECURSIVE FillClusterReversed(_, _, _, _, _)
FillClusterReversed(stack, g, i, j, cluster_array) ==
    IF j = Len(g) THEN cluster_array
    ELSE IF g[j + 1] = i
         THEN FillClusterReversed(stack, g, i, j + 1,
                                  Append(cluster_array, stack[Len(g) - j]))
         ELSE FillClusterReversed(stack, g, i, j + 1, cluster_array)

\* the inner loop over j: copies d[j] to row cluster_idx of cluster_array
\* for every j with groups[j] == i
RECURSIVE FillCluster(_, _, _, _, _)
FillCluster(stack, g, i, j, cluster_array) ==
    IF j = Len(g) THEN cluster_array
    ELSE IF g[j + 1] = i
         THEN FillCluster(stack, g, i, j + 1, Append(cluster_array, stack[j + 1]))
         ELSE FillCluster(stack, g, i, j + 1, cluster_array)

\* the catalogue entry of stack member j (0-based), where there is one
KPosition(j) == <<10 * (j + 1), 20 + j, j + 1>>

\* what mapped_parameters.locations can be for a stack of n members: absent,
\* or entries for all the members, or for all but the last
KLocations(n) ==
    {[has |-> FALSE, entries |-> <<>>]}
    \cup {[has |-> TRUE, entries |-> [j \in 1..m |-> KPosition(j - 1)]] : m \in (n - 1)..n}

\* whether self.mapped_parameters.locations[j] evaluates without raising
HasEntry(locs, j) == locs.has /\ j < Len(locs.entries)

\* np.zeros((members, 3))
ZeroPositions(members) == [n \in 1..members |-> <<0, 0, 0>>]

\* the inner loop over j, for positions, writing row j where the code writes
\* row cluster_idx (a row outside the array raises, which the except swallows)
RECURSIVE FillPositionsByStackIndex(_, _, _, _, _, _)
FillPositionsByStackIndex(locs, g, i, j, cluster_idx, positions) ==
    IF j = Len(g) THEN positions
    ELSE IF g[j + 1] = i
         THEN FillPositionsByStackIndex(locs, g, i, j + 1, cluster_idx + 1,
                  IF HasEntry(locs, j) /\ j < Len(positions)
                  THEN [positions EXCEPT ![j + 1] = locs.entries[j + 1]]
                  ELSE positions)
         ELSE FillPositionsByStackIndex(locs, g, i, j + 1, cluster_idx, positions)

\* the inner loop over j, for positions: positions[cluster_idx] is set from
\* locations[j] unless reading it raises; cluster_idx advances either way
RECURSIVE FillPositions(_, _, _, _, _, _)
FillPositions(locs, g, i, j, cluster_idx, positions) ==
    IF j = Len(g) THEN positions
    ELSE IF g[j + 1] = i
         THEN FillPositions(locs, g, i, j + 1, cluster_idx + 1,
                  IF HasEntry(locs, j)
                  THEN [positions EXCEPT ![cluster_idx + 1] = locs.entries[j + 1]]
                  ELSE positions)
         ELSE FillPositions(locs, g, i, j + 1, cluster_idx, positions)

\* d.reshape((-1, d.shape[0])).T for d of shape (N, 1, 2): row c of the result
\* holds the elements r * N + c of d in row-major order
Features(stack) ==
    LET N == Len(stack)
        flat == [f \in 0..(2 * N - 1) |-> stack[(f \div 2) + 1][(f % 2) + 1]]
    IN  [c \in 1..N |-> [r \in 1..2 |-> flat[(r - 1) * N + (c - 1)]]]

\* np.sum(cluster_array, axis=0)
RECURSIVE SumAxis0(_)
SumAxis0(cluster_array) ==
    IF cluster_array = <<>> THEN ZeroFrame
    ELSE [p \in 1..2 |-> Head(cluster_array)[p] + SumAxis0(Tail(cluster_array))[p]]

\* the frame stored in avg_stack[i] for the members gathered in cluster_array
ClusterFrame(cluster_array) == SumAxis0(cluster_array)

\* the data array of the Image built for cluster i
ClusterImageData(cluster_array, avg) == avg

\* the Image built for cluster i, as the caller sees it after the return
SeenByCaller(img, final_avg) ==
    IF aliased THEN [img EXCEPT !.data = final_avg] ELSE img

\* --------------------------------------- kmeans_cluster_stack: actions
KInit ==
    /\ \E n \in 1..MaxStack : d \in [1..n -> KFrames]
    /\ clusters \in {ClustersNone} \cup 1..MaxClusters
    /\ labels \in (IF clusters = ClustersNone THEN {<<>>}
                    ELSE [1..Len(d) -> 0..(clusters - 1)])
    /\ aliased \in BOOLEAN
    /\ kpc = "start"
    /\ ki = 0
    /\ groups = <<>>
    /\ avg_stack = <<>>
    /\ cluster_arrays = <<>>
    /\ kresult = [returned |-> FALSE]
    /\ klocations \in KLocations(Len(d))
    /\ features = <<>>
    /\ kcluster_array = <<>>

\* clusters is None: "if clusters is None: pass" determines nothing, and None
\* goes on as the cluster count; np.zeros((None, H, W)) raises TypeError at the
\* latest
KNoneRaises ==
    /\ UNCHANGED <<peakVars, ovVars, imVars, pfVars, offVars>>
    /\ kpc = "start" /\ clusters = ClustersNone
    /\ kpc' = "raised"
    /\ UNCHANGED <<d, clusters, labels, aliased, ki, groups, avg_stack, cluster_arrays,
                   kresult, klocations, features, kcluster_array>>

\* allocate avg_stack, train the classifier and label the stack
KTrain ==
    /\ UNCHANGED <<peakVars, ovVars, imVars, pfVars, offVars>>
    /\ kpc = "start" /\ clusters # ClustersNone
    /\ avg_stack' = [i \in 1..clusters |-> ZeroFrame]
    /\ features' = Features(d)
    /\ groups' = labels
    /\ kpc' = "loop"
    /\ UNCHANGED <<d, clusters, labels, aliased, ki, cluster_arrays, kresult, klocations,
                   kcluster_array>>

\* one iteration of "for i in xrange(clusters)"
KCluster ==
    /\ UNCHANGED <<peakVars, ovVars, imVars, pfVars, offVars>>
    /\ kpc = "loop" /\ ki < clusters
    /\ LET members == CountOf(groups, ki)
           filled == FillCluster(d, groups, ki, 0, <<>>)
           positions == FillPositions(klocations, groups, ki, 0, 0, ZeroPositions(members))
           img == [data |-> ClusterImageData(filled, avg_stack),
                   locations |-> positions,
                   members |-> members]
       IN  /\ kcluster_array' = filled
           /\ cluster_arrays' = Append(cluster_arrays, img)
           /\ avg_stack' = [avg_stack EXCEPT ![ki + 1] = ClusterFrame(filled)]
    /\ ki' = ki + 1
    /\ UNCHANGED <<d, clusters, labels, aliased, kpc, groups, kresult, klocations, features>>

\* build members_list and the average Image, and return
KReturn ==
    /\ UNCHANGED <<peakVars, ovVars, imVars, pfVars, offVars>>
    /\ kpc = "loop" /\ ki = clusters
    /\ kresult' = [returned |-> TRUE,
                   avg_stack_Image |->
                       [data |-> avg_stack,
                        member_counts |-> [i \in 1..clusters |-> CountOf(groups, i - 1)]],
                   cluster_arrays |->
                       [i \in 1..Len(cluster_arrays) |->
                           SeenByCaller(cluster_arrays[i], avg_stack)]]
    /\ kpc' = "done"
    /\ UNCHANGED <<d, clusters, labels, aliased, ki, groups, avg_stack, cluster_arrays,
                   klocations, features, kcluster_array>>

KNext == KNoneRaises \/ KTrain \/ KCluster \/ KReturn


\* ----------------------------------------------- plot_maps: input space
\* the factor matrix has two columns, the score matrix two rows
ScoreRows(n) == [i \in 1..2 |-> [m \in 1..n |-> 10 * i + m]]

\* the crop origin recorded for member m (1-based): distinct per member
PositionOf(m) == <<10 * m, 20 + m>>

\* x, y of the peak within the crop
LocalCoords == {<<0, 0>>, <<1, 2>>}

Filenames == {"a", "b"}

\* orders in which original_files.keys() may list the parent images
KeyOrders == {<<"a">>, <<"a", "b">>, <<"b", "a">>}

\* the components argument: None, an int, or a list of ints
ComponentsArgs == {[kind |-> "None", n |-> 0, ids |-> <<>>],
                   [kind |-> "int", n |-> 1, ids |-> <<>>],
                   [kind |-> "list", n |-> 0, ids |-> <<1>>]}

\* mva_type: None, or a string
MvaTypes == {"None", "PCA", "ICA", "other"}

\* an optional argument: None, or an integer
None == [is_none |-> TRUE, v |-> 0]

Some(n) == [is_none |-> FALSE, v |-> n]

\* the keyword arguments of plot_maps
PlotMapsKwargs ==
    [mva_type : MvaTypes, scores_given : BOOLEAN, factors_given : BOOLEAN,
     scoremap : BOOLEAN, components : ComponentsArgs, navigation_dimension : {1, 2}]

\* component ids a caller may pass for a factor matrix of two columns: the
\* valid ones, the column count, and a negative one
ComponentIdArgs == {None, Some(-1), Some(0), Some(1), Some(2)}

\* plot_char: None, or the row of a characteristic in a peak's 7-row block
PlotCharArgs == {None, Some(4), Some(5), Some(6)}

\* the keyword arguments of plot_image_overlay
PlotImageOverlayKwargs ==
    [plot_component : ComponentIdArgs, mva_type : {"PCA", "ICA"}, peak_mva : BOOLEAN,
     peak_id : {None, Some(0)}, plot_char : PlotCharArgs, plot_shift : BOOLEAN]

\* the keyword arguments of plot_cell_overlays
PlotCellOverlaysKwargs ==
    [plot_component : ComponentIdArgs, mva_type : {"PCA", "ICA"}, peak_mva : BOOLEAN,
     plot_shifts : BOOLEAN, plot_char : PlotCharArgs]

Lower(s) == IF s = "PCA" THEN "pca" ELSE IF s = "ICA" THEN "ica" ELSE s

Upper(s) == s

\* ------------------------------------------------- plot_maps: helpers
\* seq[mask] for a boolean mask
RECURSIVE BoolIndex(_, _)
BoolIndex(seq, msk) ==
    IF seq = <<>> THEN <<>>
    ELSE IF Head(msk) THEN <<Head(seq)>> \o BoolIndex(Tail(seq), Tail(msk))
    ELSE BoolIndex(Tail(seq), Tail(msk))

\* variant of Mask: the comparison with the key is dropped, every member is selected
MaskAll(locs, p) == [m \in DOMAIN locs |-> TRUE]

\* mask=locs['filename']==p ; mask=mask.squeeze()
Mask(locs, p) == [m \in DOMAIN locs |-> locs[m].filename = p]

\* variant of Loc: the peak's coordinates within the crop are added to the origin
LocPlusLocal(locs, msk) ==
    LET sel == BoolIndex([m \in DOMAIN locs |-> m], msk)
    IN  [n \in DOMAIN sel |->
            <<locs[sel[n]].position[1] + peak_chars[sel[n]][1],
              locs[sel[n]].position[2] + peak_chars[sel[n]][2]>>]

\* locs[mask]['position'], before the squeeze: one row per selected member
Loc(locs, msk) ==
    LET sel == BoolIndex(locs, msk) IN [n \in DOMAIN sel |-> sel[n].position]

\* the number of dimensions left by .squeeze() of an (n, 1, 2) or (n, 2) array
SqueezedNdim(rows) == IF Len(rows) = 1 THEN 1 ELSE 2

\* scores[i].squeeze()[mask]
ScoresOf(sc, i, msk) == BoolIndex(sc[i + 1], msk)

\* an int taken as the last id instead of the number of ids
ComponentIdsThrough(a, ncols) ==
    IF a.kind = "None" THEN xrange(ncols)
    ELSE IF a.kind = "int" THEN xrange(a.n + 1)
    ELSE a.ids

\* components after lines 1029-1033, comp_ids after lines 150-154
ComponentIds(a, ncols) ==
    IF a.kind = "None" THEN xrange(ncols)
    ELSE IF a.kind = "int" THEN xrange(a.n)
    ELSE a.ids

\* ------------------------------------------------- plot_maps: actions
OvInit ==
    /\ method \in {"plot_maps", "plot_image_overlay", "plot_cell_overlays"}
    /\ \E n \in 1..MaxMembers :
          /\ \E fn \in [1..n -> Filenames] :
                locations = [m \in 1..n |-> [filename |-> fn[m], position |-> PositionOf(m)]]
          /\ \E xy \in [1..n -> LocalCoords] :
                peak_chars = [m \in 1..n |-> <<xy[m][1], xy[m][2], 0, 0, 0, 0, 0>>]
          /\ scores = ScoreRows(n)
    /\ \E hl \in BOOLEAN, src \in {"original_files", "parent", "neither"} :
          \E ko \in (IF src = "original_files" THEN KeyOrders ELSE {<<"a">>}) :
             md = [has_locations |-> hl,
                   has_original_files |-> (src = "original_files"),
                   has_parent |-> (src = "parent"),
                   keys |-> ko]
    /\ args \in (IF method = "plot_maps" THEN PlotMapsKwargs
                  ELSE IF method = "plot_image_overlay" THEN PlotImageOverlayKwargs
                  ELSE PlotCellOverlaysKwargs)
    /\ ppc = "start"
    /\ ci = 0
    /\ comps = <<>>
    /\ scoremap = (IF method = "plot_maps" THEN args.scoremap ELSE FALSE)
    /\ parents = [bound |-> FALSE, keys |-> <<>>]
    /\ scatters = <<>>
    /\ perr = "none"

\* plot_image_overlay: the signature has no self parameter, so the Image the
\* method is called on is bound to plot_component: passing plot_component as
\* well is a TypeError at the call, and otherwise the first statement, which
\* reads self.mapped_parameters, raises NameError
PlotImageOverlay ==
    /\ UNCHANGED <<peakVars, kmVars, imVars, pfVars, offVars>>
    /\ method = "plot_image_overlay" /\ ppc = "start"
    /\ perr' = (IF args.plot_component.is_none THEN "NameError" ELSE "TypeError")
    /\ ppc' = "raised"
    /\ UNCHANGED <<method, locations, peak_chars, md, args, scores, ci, comps, scoremap,
                   parents, scatters>>

\* plot_cell_overlays: the signature has no self parameter (the Image is bound
\* to cell_data), so the second statement, which reads self.data, raises
\* NameError; self.target_locations and self.peak_width are neither read nor
\* written
PlotCellOverlays ==
    /\ UNCHANGED <<peakVars, kmVars, imVars, pfVars, offVars>>
    /\ method = "plot_cell_overlays" /\ ppc = "start"
    /\ perr' = "NameError"
    /\ ppc' = "raised"
    /\ UNCHANGED <<method, locations, peak_chars, md, args, scores, ci, comps, scoremap,
                   parents, scatters>>

\* plot_maps, lines 999-1033: pick scores and factors, convert components
PlotMapsArgs ==
    /\ UNCHANGED <<peakVars, kmVars, imVars, pfVars, offVars>>
    /\ method = "plot_maps" /\ ppc = "start"
    /\ IF ~args.scores_given
       THEN IF args.mva_type = "None" \/ Lower(args.mva_type) \notin {"pca", "ica"}
            THEN \* warning, return
                 /\ ppc' = "done"
                 /\ UNCHANGED <<comps, perr>>
            ELSE \* scores and factors are taken from the analysis results
                 /\ comps' = ComponentIds(args.components, 2)
                 /\ ppc' = "components"
                 /\ UNCHANGED perr
       ELSE IF ~args.factors_given
            THEN \* "with_components" is not defined
                 /\ perr' = "NameError"
                 /\ ppc' = "raised"
                 /\ UNCHANGED comps
            ELSE /\ comps' = ComponentIds(args.components, 2)
                 /\ ppc' = "components"
                 /\ UNCHANGED perr
    /\ UNCHANGED <<method, locations, peak_chars, md, args, scores, ci, scoremap, parents,
                   scatters>>

\* plot_maps, lines 1035-1065 and 1093-1099: one iteration of
\* "for i in components", up to the score-map overlays
PlotMapsComponent ==
    /\ UNCHANGED <<peakVars, kmVars, imVars, pfVars, offVars>>
    /\ method = "plot_maps" /\ ppc = "components" /\ ci < Len(comps)
    /\ IF args.navigation_dimension # 1
       THEN \* 'View not supported'
            /\ ci' = ci + 1
            /\ UNCHANGED <<ppc, scoremap, parents, perr>>
       ELSE LET sm == IF md.has_locations THEN scoremap ELSE FALSE
                par == IF ~md.has_locations THEN [bound |-> TRUE, keys |-> <<>>]
                       ELSE IF md.has_original_files THEN [bound |-> TRUE, keys |-> md.keys]
                       ELSE IF md.has_parent THEN [bound |-> TRUE, keys |-> md.keys]
                       ELSE parents
            IN  /\ scoremap' = sm
                /\ parents' = par
                /\ IF sm /\ ~par.bound
                   THEN \* keys=parents.keys(): parents is not bound
                        /\ perr' = "UnboundLocalError" /\ ppc' = "raised" /\ UNCHANGED ci
                   ELSE IF args.mva_type = "None"
                   THEN \* mva_type.upper() on None
                        /\ perr' = "AttributeError" /\ ppc' = "raised" /\ UNCHANGED ci
                   ELSE IF Upper(args.mva_type) \in {"PCA", "ICA"}
                   THEN \* _plot_pc / _plot_ic are not global names
                        /\ perr' = "NameError" /\ ppc' = "raised" /\ UNCHANGED ci
                   ELSE IF sm
                   THEN /\ ppc' = "overlay" /\ UNCHANGED <<ci, perr>>
                   ELSE IF comps[ci + 1] >= Len(scores)
                   THEN \* scores[i]
                        /\ perr' = "IndexError" /\ ppc' = "raised" /\ UNCHANGED ci
                   ELSE \* score against image index
                        /\ ci' = ci + 1 /\ UNCHANGED <<ppc, perr>>
    /\ UNCHANGED <<method, locations, peak_chars, md, args, scores, comps, scatters>>

\* plot_maps, lines 1066-1092: the overlay on the first parent image (idx = 0)
PlotMapsOverlay ==
    /\ UNCHANGED <<peakVars, kmVars, imVars, pfVars, offVars>>
    /\ method = "plot_maps" /\ ppc = "overlay"
    /\ LET i == comps[ci + 1]
           p == parents.keys[1]
           mask == Mask(locations, p)
           loc == Loc(locations, mask)
       IN  IF SqueezedNdim(loc) = 1 \/ i >= Len(scores)
           THEN \* loc[:,0] on a 1-d array, or scores[i] out of range
                /\ perr' = "IndexError"
                /\ UNCHANGED scatters
           ELSE \* the scatter is drawn, then make_axes_locatable is not defined
                /\ scatters' = Append(scatters, [parent |-> p, component |-> i, xy |-> loc,
                                                 c |-> ScoresOf(scores, i, mask)])
                /\ perr' = "NameError"
    /\ ppc' = "raised"
    /\ UNCHANGED <<method, locations, peak_chars, md, args, scores, ci, comps, scoremap,
                   parents>>

\* plot_maps: the loop over the components is exhausted
PlotMapsReturn ==
    /\ UNCHANGED <<peakVars, kmVars, imVars, pfVars, offVars>>
    /\ method = "plot_maps" /\ ppc = "components" /\ ci = Len(comps)
    /\ ppc' = "done"
    /\ UNCHANGED <<method, locations, peak_chars, md, args, scores, ci, comps, scoremap,
                   parents, scatters, perr>>

OvNext == PlotImageOverlay \/ PlotCellOverlays \/ PlotMapsArgs \/ PlotMapsComponent
          \/ PlotMapsOverlay \/ PlotMapsReturn

\* ------------------------------------------------ _plot_factors_or_pchars
\* sequences of at most two ids of a factor matrix with ncols columns
IdLists(ncols) ==
    UNION {[1..n -> 0..(ncols - 1)] : n \in 0..2}

\* comp_ids: None, an int up to the column count, or a list of ids
CompIdsArgs(ncols) ==
    {[kind |-> "None", n |-> 0, ids |-> <<>>]}
    \cup {[kind |-> "int", n |-> n, ids |-> <<>>] : n \in 0..ncols}
    \cup {[kind |-> "list", n |-> 0, ids |-> l] : l \in IdLists(ncols)}

\* the arguments of _plot_factors_or_pchars that decide what is plotted:
\* factors.shape[1], comp_ids, same_window and on_peaks
PlotFactorsKwargs ==
    UNION {[ncols : {c}, comp_ids : CompIdsArgs(c), same_window : BOOLEAN,
            on_peaks : BOOLEAN] : c \in 1..MaxFactors}

\* lines 150-160: comp_ids becomes a sequence of ids, n its length
PlotFactorsIds ==
    /\ UNCHANGED <<peakVars, kmVars, imVars, offVars>>
    /\ method = "_plot_factors_or_pchars" /\ ppc = "start"
    /\ comps' = ComponentIds(args.comp_ids, args.ncols)
    /\ ppc' = "components"
    /\ UNCHANGED <<method, locations, peak_chars, md, args, scores, ci, scoremap, parents,
                   scatters, perr, plotted>>

\* lines 162-174: one iteration of "for i in xrange(n)": a subplot or a
\* figure, and one imgdraw._plot_component call with idx=comp_ids[i]
PlotFactorsComponent ==
    /\ UNCHANGED <<peakVars, kmVars, imVars, offVars>>
    /\ method = "_plot_factors_or_pchars" /\ ppc = "components" /\ ci < Len(comps)
    /\ plotted' = Append(plotted, comps[ci + 1])
    /\ ci' = ci + 1
    /\ UNCHANGED <<method, locations, peak_chars, md, args, scores, ppc, comps, scoremap,
                   parents, scatters, perr>>

\* line 175: the loop is exhausted, plt.tight_layout()
PlotFactorsReturn ==
    /\ UNCHANGED <<peakVars, kmVars, imVars, offVars>>
    /\ method = "_plot_factors_or_pchars" /\ ppc = "components" /\ ci = Len(comps)
    /\ ppc' = "done"
    /\ UNCHANGED <<method, locations, peak_chars, md, args, scores, ci, comps, scoremap,
                   parents, scatters, perr, plotted>>

PfNext == PlotFactorsIds \/ PlotFactorsComponent \/ PlotFactorsReturn

\* ------------------------------------------- Offset.estimate_parameters
\* floats as fractions in lowest terms; per_channel marks a value that has
\* become an array over the channels of the signal axis
RECURSIVE GCD(_, _)
GCD(a, b) == IF b = 0 THEN a ELSE GCD(b, a % b)

Frac(n, dn) ==
    LET g == IF n = 0 THEN dn ELSE GCD(n, dn)
    IN  [num |-> n \div g, den |-> dn \div g, per_channel |-> FALSE]

\* the counts a channel holds
Counts == {0, 2}

\* axis.scale of a uniform axis
Scales == {1, 2}

\* the signals: data[p][c] at navigation position p, channel c; the axis is
\* uniform or not, the signal binned or not; current is the navigation
\* position signal() reads
Signals ==
    [data : [1..NavSize -> [1..Channels -> Counts]], is_uniform : BOOLEAN, binned : BOOLEAN,
     scale : Scales, current : 1..NavSize]

\* axis.value_range_to_indices(x1, x2): the channel indices i1 < i2 of the range
IndexRanges == {r \in (0..Channels) \X (0..Channels) : r[1] < r[2]}

\* Component._estimate_parameters has read the binning of the signal
SelfBinned(sig) == sig.binned

\* hyperspy.misc.utils.is_binned
is_binned(sig) == sig.binned

\* Component._create_arrays: a map entry per navigation position, none set
CreateArrays ==
    [is_none |-> FALSE, values |-> [p \in 1..NavSize |-> Frac(0, 1)],
     is_set |-> [p \in 1..NavSize |-> FALSE]]

\* offset.map is None
NoMap == [is_none |-> TRUE, values |-> <<>>, is_set |-> <<>>]

\* a map an earlier fit has filled
UsedMap ==
    [is_none |-> FALSE, values |-> [p \in 1..NavSize |-> Frac(7, 1)],
     is_set |-> [p \in 1..NavSize |-> TRUE]]

\* the mean of the first i2 channels, whatever i1
MeanFromFirstChannel(row, i1, i2) == Frac(SumSeq(SubSeq(row, 1, i2)), i2)

\* row[i1:i2].mean()
MeanOver(row, i1, i2) == Frac(SumSeq(SubSeq(row, i1 + 1, i2)), i2 - i1)

\* v /= axis.scale
DivideByScale(v, s) == Frac(v.num, v.den * s)

\* v /= np.gradient(axis.axis): one quotient per channel
DivideByGradient(v) == [v EXCEPT !.per_channel = TRUE]

\* the division both branches apply to a mean when the signal is binned
Binned(v, sig) ==
    IF is_binned(sig)
    THEN IF sig.is_uniform THEN DivideByScale(v, sig.scale) ELSE DivideByGradient(v)
    ELSE v

\* a component with an offset value and a map, and a call about to be made;
\* before is the offset parameter as the call finds it
OffInit ==
    /\ signal \in Signals
    /\ \E m \in {NoMap, UsedMap} : offset = [value |-> Frac(5, 1), map |-> m]
    /\ \E r \in IndexRanges, oc \in BOOLEAN :
          estimate = [args |-> [i1 |-> r[1], i2 |-> r[2], only_current |-> oc],
                      pc |-> "start", returned |-> FALSE, err |-> "none",
                      before |-> offset]

\* estimate_parameters
EstimateParameters ==
    /\ UNCHANGED <<peakVars, kmVars, ovVars, imVars, pfVars>>
    /\ estimate.pc = "start"
    /\ LET a == estimate.args
       IN  IF ~signal.is_uniform /\ SelfBinned(signal)
           THEN /\ estimate' = [estimate EXCEPT !.pc = "raised",
                                                !.err = "NotImplementedError"]
                /\ UNCHANGED offset
           ELSE IF a.only_current
           THEN /\ offset' = [offset EXCEPT !.value =
                                 Binned(MeanOver(signal.data[signal.current], a.i1, a.i2),
                                        signal)]
                /\ estimate' = [estimate EXCEPT !.pc = "done", !.returned = TRUE]
           ELSE LET m == IF offset.map.is_none THEN CreateArrays ELSE offset.map
                    vals == [p \in 1..NavSize |->
                                Binned(MeanOver(signal.data[p], a.i1, a.i2), signal)]
                IN  /\ offset' = [value |-> vals[signal.current],
                                  map |-> [m EXCEPT !.values = vals,
                                                    !.is_set = [p \in 1..NavSize |-> TRUE]]]
                    /\ estimate' = [estimate EXCEPT !.pc = "done", !.returned = TRUE]
    /\ UNCHANGED signal

OffNext == EstimateParameters

\* ------------------------------------------------ peak_char_stack: state
\* self.target_locations: None, or an array of (x, y) rows
NoLocations == [is_none |-> TRUE, locs |-> <<>>]

GivenLocations(l) == [is_none |-> FALSE, locs |-> l]

\* the (x, y) rows a peak search can return for an average frame
LocationSets == {<<>>, <<<<1, 1>>>>, <<<<1, 1>>, <<2, 2>>>>}

\* the peak widths a caller passes to peak_char_stack
PeakWidths == {2, 3}

\* the peak width plot_cell_overlays falls back to
DefaultPeakWidth == 10

\* the arguments of peak_char_stack the call records
PeakCharStackKwargs ==
    [peak_width : PeakWidths,
     target_locations : {NoLocations} \cup {GivenLocations(l) : l \in LocationSets \ {<<>>}}]

\* the tables pc.peak_attribs_stack can return: per member the 7
\* characteristics of peak 0
PeakCharTables ==
    UNION {{[m \in 1..n |-> <<xy[m][1], xy[m][2], 0, 0, 0, 0, 0>>] :
               xy \in [1..n -> LocalCoords]} : n \in 1..MaxMembers}

\* the keyword arguments of the plot_cell_overlays calls that follow
CellOverlayCalls ==
    {a \in PlotCellOverlaysKwargs : a.plot_component.is_none /\ a.plot_char.is_none}

\* ---------------------------------------------- peak_char_stack: actions
\* Image.__init__, and a stack whose average frame holds some peaks
ImInit ==
    /\ target_locations = NoLocations
    /\ peak_width = None
    /\ found_on_average \in [PeakWidths \cup {DefaultPeakWidth} -> LocationSets]
    /\ char_call = [called |-> FALSE, args |-> <<>>]

\* peak_char_stack: store the two arguments as given, then the table
PeakCharStack ==
    /\ UNCHANGED <<peakVars, kmVars, pfVars, offVars>>
    /\ method = "plot_cell_overlays" /\ ppc = "start" /\ ~char_call.called
    /\ \E a \in PeakCharStackKwargs :
          /\ target_locations' = a.target_locations
          /\ peak_width' = Some(a.peak_width)
          /\ char_call' = [called |-> TRUE, args |-> a]
    /\ peak_chars' \in PeakCharTables
    /\ UNCHANGED <<found_on_average, method, locations, md, args, scores, ppc, ci, comps,
                   scoremap, parents, scatters, perr>>

CharNext == PeakCharStack \/ PlotCellOverlays

\* ------------------------------------------------------- specifications
PeakNext == Find2D \/ Allocate \/ FallThrough \/ FindImage \/ Trim

vars == <<peakVars, kmVars, ovVars, imVars, pfVars, offVars>>

\* the state of an Image on which peakfind_2D has not been called
PeakIdle ==
    /\ shape = <<>> /\ frames = <<>> /\ maxpeakn = 0 /\ pc = "idle" /\ idx = 0
    /\ has_peaks = FALSE /\ peaks = [shape |-> <<>>, v |-> <<>>]
    /\ calls = <<>> /\ trim_id = -1 /\ err = "none"

\* the state of an Image on which kmeans_cluster_stack has not been called
KIdle ==
    /\ d = <<>> /\ clusters = 0 /\ labels = <<>> /\ aliased = FALSE /\ kpc = "idle"
    /\ ki = 0 /\ groups = <<>> /\ avg_stack = <<>> /\ cluster_arrays = <<>>
    /\ kresult = [returned |-> FALSE]
    /\ klocations = [has |-> FALSE, entries |-> <<>>] /\ features = <<>>
    /\ kcluster_array = <<>>

\* the state of an Image on which no plotting method has been called
OvIdle ==
    /\ method = "none" /\ locations = <<>> /\ peak_chars = <<>> /\ md = <<>> /\ args = <<>>
    /\ scores = <<>> /\ ppc = "idle" /\ ci = 0 /\ comps = <<>> /\ scoremap = FALSE
    /\ parents = [bound |-> FALSE, keys |-> <<>>] /\ scatters = <<>> /\ perr = "none"

\* the attributes of an Image as __init__ leaves them, no average frame looked at
ImIdle ==
    /\ target_locations = NoLocations /\ peak_width = None
    /\ found_on_average = <<>> /\ char_call = [called |-> FALSE, args |-> <<>>]

\* no factor has been plotted
PfIdle == plotted = <<>>

\* no Offset component
OffIdle == signal = <<>> /\ offset = <<>> /\ estimate = <<>>

\* what the other specifications leave alone
Idle == ImIdle /\ PfIdle /\ OffIdle

\* calls of peakfind_2D
InitPeaks == PeakInit /\ KIdle /\ OvIdle /\ Idle

SpecPeaks == InitPeaks /\ [][PeakNext]_vars

\* calls of peakfind_2D on a 3-D or 4-D stack whose images are processed in
\* any order, the trimming after all of them
AnyOrderShapes == {s \in Shapes : Len(s) \in {3, 4} /\ Len(ImageKeys(s)) <= MaxImages}

InitAnyOrder == shape \in AnyOrderShapes /\ PeakInit /\ KIdle /\ OvIdle /\ Idle

AnyOrderNext == Allocate \/ FindAnyImage \/ Trim

SpecAnyOrder == InitAnyOrder /\ [][AnyOrderNext]_vars

\* calls of kmeans_cluster_stack
InitCluster == KInit /\ PeakIdle /\ OvIdle /\ Idle

SpecCluster == InitCluster /\ [][KNext]_vars

InitOverlay == OvInit /\ PeakIdle /\ KIdle /\ Idle

\* calls of plot_maps, plot_image_overlay and plot_cell_overlays
SpecOverlay == InitOverlay /\ [][OvNext]_vars

\* a fresh Image, on which peak_char_stack is or is not called before
\* plot_cell_overlays
InitChar ==
    /\ ImInit /\ PeakIdle /\ KIdle /\ PfIdle /\ OffIdle
    /\ method = "plot_cell_overlays"
    /\ locations = <<>> /\ peak_chars = <<>> /\ scores = <<>>
    /\ md = [has_locations |-> FALSE, has_original_files |-> FALSE, has_parent |-> FALSE,
             keys |-> <<"a">>]
    /\ args \in CellOverlayCalls
    /\ ppc = "start" /\ ci = 0 /\ comps = <<>> /\ scoremap = FALSE
    /\ parents = [bound |-> FALSE, keys |-> <<>>] /\ scatters = <<>> /\ perr = "none"

SpecChar == InitChar /\ [][CharNext]_vars

\* calls of _plot_factors_or_pchars
InitFactors ==
    /\ PeakIdle /\ KIdle /\ ImIdle /\ OffIdle
    /\ method = "_plot_factors_or_pchars"
    /\ args \in PlotFactorsKwargs
    /\ locations = <<>> /\ peak_chars = <<>> /\ md = <<>> /\ scores = <<>>
    /\ ppc = "start" /\ ci = 0 /\ comps = <<>> /\ scoremap = FALSE
    /\ parents = [bound |-> FALSE, keys |-> <<>>] /\ scatters = <<>> /\ perr = "none"
    /\ plotted = <<>>

SpecFactors == InitFactors /\ [][PfNext]_vars

\* calls of Offset.estimate_parameters
InitOffset == OffInit /\ PeakIdle /\ KIdle /\ OvIdle /\ ImIdle /\ PfIdle

SpecOffset == InitOffset /\ [][OffNext]_vars

\* ---------------------------------------------------- peakfind_2D: claims
\* the peaks the finder reports for the image with the given key
FoundOn(key) == two_dim_findpeaks(frames[FrameSlice(shape, key)])

\* the largest number of peaks found on any one image
MaxCount == MaxSeq([k \in DOMAIN ImageKeys(shape) |-> Len(FoundOn(ImageKeys(shape)[k]))])

\* x + y of slot s (0-based), accumulated image by image
CoordTotal(buf, s) ==
    SumSeq([k \in DOMAIN ImageKeys(shape) |->
               buf.v[ImageKeys(shape)[k]][s + 1][1] + buf.v[ImageKeys(shape)[k]][s + 1][2]])

\* C3: after peakfind_2D on a 3-D or 4-D stack, the number of peak slots kept
\* equals the largest number of peaks found on any image (nothing found is
\* trimmed away, no slot empty in every image is kept).
C3_KeptSlotsEqualMaxCount ==
    (pc = "done" /\ rank \in {3, 4}) => peaks.shape[1] = MaxCount

\* C4: the trimming step sets trim_id to the smallest slot index whose
\* coordinates, summed over all images and both fields, are zero, and
\* replaces the buffer by its slots below that index.
C4_TrimIndexIsFirstZeroSlot ==
    [][(pc = "loop" /\ pc' = "done") =>
          /\ trim_id' \in 0..(peaks.shape[1] - 1)
          /\ CoordTotal(peaks, trim_id') = 0
          /\ \A s \in 0..(trim_id' - 1) : CoordTotal(peaks, s) # 0
          /\ peaks'.shape = [peaks.shape EXCEPT ![1] = trim_id']
          /\ DOMAIN peaks'.v = DOMAIN peaks.v
          /\ \A key \in DOMAIN peaks.v :
                /\ Len(peaks'.v[key]) = trim_id'
                /\ \A s \in 1..trim_id' : peaks'.v[key][s] = peaks.v[key][s]]_vars

\* a 3-D call that trimmed a buffer at a slot that is neither the first nor absent
C4_Witness ==
    /\ pc = "done" /\ rank = 3 /\ shape[3] = 2
    /\ trim_id = 1 /\ maxpeakn = 2
    /\ peaks.v[<<1>>] = << <<1, 2>> >>

\* C5: on data whose rank is not 2, 3 or 4 peakfind_2D raises UnsupportedRank,
\* calls the finder on nothing and does not return normally.
C5_UnsupportedRankRaises ==
    (rank \notin {2, 3, 4} /\ pc # "start") =>
        (pc = "raised" /\ err = "UnsupportedRank" /\ calls = <<>>)

\* C6 as stated: on a 4-D stack the finder is invoked once per pair (n, m) of
\* the two trailing axes, on data[:, :, n, m], and the buffer has one slice per
\* such pair.
C6_FourDTrailingAxes ==
    (rank = 4 /\ pc = "done") =>
        /\ Len(calls) = shape[3] * shape[4]
        /\ \A n \in 0..(shape[3] - 1), m \in 0..(shape[4] - 1) :
              Cardinality({k \in DOMAIN calls : calls[k] = <<ALL, ALL, n, m>>}) = 1
        /\ peaks.shape = <<trim_id, 2, shape[3], shape[4]>>

\* C6 amended: on a 4-D stack laid out N x M x H x W, a call that returns has
\* invoked the finder once per pair (n, m) of the two leading axes, on the
\* frame data[n, m, :, :], and slice [:, :, n, m] of the (slots, 2, N, M)
\* result holds that frame's peaks followed by zeros.
C6_FourDLeadingAxes ==
    (rank = 4 /\ pc = "done") =>
        /\ Len(calls) = shape[1] * shape[2]
        /\ \A n \in 0..(shape[1] - 1), m \in 0..(shape[2] - 1) :
              /\ Cardinality({k \in DOMAIN calls : calls[k] = <<n, m, ALL, ALL>>}) = 1
              /\ \A s \in 1..trim_id :
                    peaks.v[<<n, m>>][s] =
                        IF s <= Len(frames[<<n, m, ALL, ALL>>])
                        THEN frames[<<n, m, ALL, ALL>>][s] ELSE ZeroPeak
        /\ peaks.shape = <<trim_id, 2, shape[1], shape[2]>>

\* a returned 4-D call with N # M in which two frames wrote different peaks
C6_Witness ==
    /\ rank = 4 /\ pc = "done" /\ shape[1] # shape[2]
    /\ trim_id >= 1
    /\ peaks.v[<<0, 0>>][1] # peaks.v[<<0, 1>>][1]

\* C7: on a 3-D stack H x W x N the finder is invoked once per image index i
\* of the trailing axis; in the result slot s of image i holds the s-th peak
\* found on image i, and the slots of image i from its peak count on are zero.
C7_ThreeDSlotsHoldFoundPeaks ==
    (rank = 3 /\ pc = "done") =>
        /\ Len(calls) = shape[3]
        /\ \A i \in 0..(shape[3] - 1) :
              /\ Cardinality({k \in DOMAIN calls : calls[k] = <<ALL, ALL, i>>}) = 1
              /\ \A s \in 1..Len(frames[<<ALL, ALL, i>>]) :
                    /\ s <= peaks.shape[1]
                    /\ peaks.v[<<i>>][s] = frames[<<ALL, ALL, i>>][s]
              /\ \A s \in (Len(frames[<<ALL, ALL, i>>]) + 1)..peaks.shape[1] :
                    peaks.v[<<i>>][s] = ZeroPeak

\* C8: for a 3-D stack of identical frames with a single peak at the same
\* coordinates, the trimmed buffer has exactly one slot and every image's
\* record is that peak.
C8_IdenticalSinglePeakFrames ==
    \A c \in Coords :
        (/\ rank = 3 /\ pc = "done"
         /\ \A i \in 0..(shape[3] - 1) : frames[<<ALL, ALL, i>>] = <<c>>)
        => /\ peaks.shape[1] = 1
           /\ \A i \in 0..(shape[3] - 1) : peaks.v[<<i>>] = <<c>>

\* the 4-D stack of shape (2, 2, H, W) on which the finder finds nothing
NoPeaks22 ==
    /\ shape = <<2, 2, 3, 3>>
    /\ \A sl \in DOMAIN frames : two_dim_findpeaks(frames[sl]) = <<>>

\* C9: on a 4-D stack of shape (2, 2, H, W) without any detectable peak,
\* peakfind_2D raises nothing, runs to its return, and the trimmed result
\* has zero peak slots.
C9_NoPeaksGivesZeroSlots ==
    NoPeaks22 =>
        /\ err = "none" /\ pc # "raised"
        /\ (pc # "done") => ENABLED PeakNext
        /\ (pc = "done") =>
              /\ has_peaks /\ trim_id = 0
              /\ peaks.shape = <<0, 2, 2, 2>>
              /\ \A key \in DOMAIN peaks.v : peaks.v[key] = <<>>

\* the call on the peak-free (2, 2, H, W) stack has returned, all four frames searched
C9_Witness == NoPeaks22 /\ pc = "done" /\ Len(calls) = 4 /\ maxpeakn = 2


\* C18: after peakfind_2D has raised, the Image holds no peak buffer of that
\* call: neither a partially filled nor an untrimmed one.
C18_FailedCallExposesNoTable ==
    (pc = "raised") => ~has_peaks

\* the buffer the loop builds when it takes the images in its own order
RECURSIVE InOrderBuffer(_)
InOrderBuffer(k) ==
    IF k = 0 THEN ZerosBuffer(maxpeakn, shape)
    ELSE LET key == ImageKeys(shape)[k]
         IN  WriteFrame(InOrderBuffer(k - 1), key,
                        two_dim_findpeaks(frames[FrameSlice(shape, key)]))

\* the peaks found on image key, followed by zero slots up to the capacity
PaddedPeaks(key) ==
    LET tmp == two_dim_findpeaks(frames[FrameSlice(shape, key)])
    IN  [s \in 1..maxpeakn |-> IF s <= Len(tmp) THEN tmp[s] ELSE ZeroPeak]

\* C19: whatever the order in which the images are processed, each write
\* changes only its own image's slice (a processed image's slice holds its own
\* peaks, an unprocessed one's is still zero), and the result trimmed after
\* all writes is the one the loop's own order gives.
C19_ResultIndependentOfOrder ==
    /\ (pc = "loop") =>
           \A k \in DOMAIN ImageKeys(shape) :
               LET key == ImageKeys(shape)[k]
               IN  peaks.v[key] =
                       IF \E c \in DOMAIN calls : calls[c] = FrameSlice(shape, key)
                       THEN PaddedPeaks(key)
                       ELSE [s \in 1..maxpeakn |-> ZeroPeak]
    /\ (pc = "done") =>
           LET n == Len(ImageKeys(shape))
           IN  peaks = Truncate(InOrderBuffer(n), TrimIndex(InOrderBuffer(n), ImageKeys(shape)))

\* a finished call that took the second image first, on two images with
\* different peaks, and kept at least one slot
C19_Witness ==
    /\ pc = "done" /\ Len(calls) = 2
    /\ calls[1] = FrameSlice(shape, ImageKeys(shape)[2])
    /\ frames[calls[1]] # frames[calls[2]]
    /\ peaks.shape[1] >= 1

\* C28: on a 3-D or 4-D stack in which no image yields more than maxpeakn
\* peaks (an image may yield exactly maxpeakn), peakfind_2D raises nothing
\* and ends with a buffer of at most maxpeakn slots.
C28_FullCapacityCompletes ==
    (rank \in {3, 4} /\ pc \in {"done", "raised"}
        /\ \A k \in DOMAIN ImageKeys(shape) : Len(FoundOn(ImageKeys(shape)[k])) <= maxpeakn) =>
        (pc = "done" /\ err = "none" /\ peaks.shape[1] <= maxpeakn)

\* ------------------------------------------- kmeans_cluster_stack: claims
\* the stack frames assigned to cluster i, in ascending stack order
MembersOf(i) ==
    LET js == {j \in 1..Len(d) : groups[j] = i}
        nth[n \in 1..Cardinality(js)] ==
            CHOOSE j \in js : Cardinality({o \in js : o < j}) = n - 1
    IN  [n \in 1..Cardinality(js) |-> d[nth[n]]]

\* C1: for every cluster i with at least one member the returned average
\* frame i is the elementwise mean of the frames assigned to cluster i
\* (stated without division: average * members = sum of the members).
C1_AverageIsMeanOfMembers ==
    (kpc = "done") =>
        \A i \in 0..(clusters - 1) :
            Len(MembersOf(i)) >= 1 =>
                \A p \in 1..2 :
                    kresult.avg_stack_Image.data[i + 1][p] * Len(MembersOf(i))
                        = SumSeq([n \in 1..Len(MembersOf(i)) |-> MembersOf(i)[n][p]])

\* C2: for every cluster i the returned i-th member array holds exactly the
\* frames assigned to cluster i, in ascending stack order, and its length is
\* the member count of cluster i.
C2_MemberArrayHoldsMembers ==
    (kpc = "done") =>
        \A i \in 0..(clusters - 1) :
            /\ kresult.cluster_arrays[i + 1].data = MembersOf(i)
            /\ Len(kresult.cluster_arrays[i + 1].data) = kresult.cluster_arrays[i + 1].members
            /\ kresult.cluster_arrays[i + 1].members = Len(MembersOf(i))

\* the stack indices (0-based) of the members of cluster i, ascending
MemberIndicesOf(i) ==
    LET js == {j \in 0..(Len(d) - 1) : groups[j + 1] = i}
    IN  [n \in 1..Cardinality(js) |->
            CHOOSE j \in js : Cardinality({o \in js : o < j}) = n - 1]

\* the call has a next step to take: the guard of KTrain, KCluster or KReturn
\* holds (no step of the call raises)
KCanStep == kpc = "start" \/ (kpc = "loop" /\ ki <= clusters)

\* C15: a cluster id with no member gets an all-zero average frame and the
\* member count zero, and the call still runs to its return, with an average
\* frame and a member Image for every one of the k clusters.
C15_EmptyClusterGivesZeroFrame ==
    /\ (clusters # ClustersNone /\ kpc # "done") => KCanStep
    /\ (kpc = "done") =>
           /\ kresult.returned
           /\ Len(kresult.avg_stack_Image.data) = clusters
           /\ Len(kresult.cluster_arrays) = clusters
           /\ \A i \in 0..(clusters - 1) :
                  (\A j \in 1..Len(d) : groups[j] # i) =>
                      /\ \A p \in 1..2 : kresult.avg_stack_Image.data[i + 1][p] = 0
                      /\ kresult.avg_stack_Image.member_counts[i + 1] = 0
                      /\ kresult.cluster_arrays[i + 1].members = 0

\* a returned call that left a cluster empty, over a stack without a zero frame
C15_Witness ==
    /\ kpc = "done"
    /\ \E i \in 0..(clusters - 1) : \A j \in 1..Len(d) : groups[j] # i
    /\ \A j \in 1..Len(d) : \A p \in 1..2 : d[j][p] = 1

\* C16: when k equals the stack size and every cluster has exactly one
\* member, the average frame of each cluster is that member's frame.
C16_SingletonAverageIsTheFrame ==
    (kpc = "done" /\ clusters = Len(d)
        /\ \A i \in 0..(clusters - 1) : CountOf(groups, i) = 1) =>
        \A j \in 1..Len(d) : kresult.avg_stack_Image.data[groups[j] + 1] = d[j]

\* a returned call with two singleton clusters holding different frames
C16_Witness ==
    /\ kpc = "done" /\ clusters = 2 /\ Len(d) = 2
    /\ groups = <<1, 0>>
    /\ d[1] # d[2]

C20_FeatureIsFlattenedFrame ==
    (kpc \in {"loop", "done"}) =>
        \A j \in 1..Len(d) :
            /\ features[j] = d[j]
            /\ groups[j] = labels[j]

\* C30: a call with clusters omitted determines a cluster count itself and
\* runs to its return, with at least one average frame and one member Image
\* per cluster.
C30_OmittedClustersIsDetermined ==
    (clusters = ClustersNone /\ kpc \in {"done", "raised"}) =>
        /\ kpc = "done" /\ kresult.returned
        /\ Len(kresult.avg_stack_Image.data) >= 1
        /\ Len(kresult.cluster_arrays) = Len(kresult.avg_stack_Image.data)

\* C22: after the call the member counts have length k, are non-negative and
\* sum to N, and the returned per-cluster member arrays hold N frames in all,
\* frame j in the array of the cluster it was assigned to.
C22_ClustersPartitionTheStack ==
    (kpc = "done") =>
        LET counts == kresult.avg_stack_Image.member_counts
            arrays == kresult.cluster_arrays
        IN  /\ Len(counts) = clusters
            /\ \A i \in DOMAIN counts : counts[i] >= 0
            /\ SumSeq(counts) = Len(d)
            /\ \A j \in 1..Len(d) : groups[j] \in 0..(clusters - 1)
            /\ Len(arrays) = clusters
            /\ SumSeq([i \in DOMAIN arrays |-> Len(arrays[i].data)]) = Len(d)
            /\ \A j \in 1..Len(d) :
                   \E n \in DOMAIN arrays[groups[j] + 1].data :
                       arrays[groups[j] + 1].data[n] = d[j]


\* --------------------------------------------------- plot_maps: claims
\* the n-th (1-based) stack member, in catalogue order, whose filename is p
NthMemberOf(p, n) ==
    CHOOSE m \in DOMAIN locations :
        /\ locations[m].filename = p
        /\ Cardinality({o \in DOMAIN locations : o < m /\ locations[o].filename = p}) = n - 1

\* the peak's coordinates within the crop of member m
LocalCoordinate(m) == <<peak_chars[m][1], peak_chars[m][2]>>

SelectedMembers(key) ==
    LET ms == {m \in DOMAIN locations : locations[m].filename = key}
    IN  [n \in 1..Cardinality(ms) |-> NthMemberOf(key, n)]

\* the call has ended, by a return or by an exception
Ended == ppc \in {"done", "raised"}

\* the component ids whose scores the call asks to map onto the parent images
RequestedComponents ==
    IF method = "plot_maps" THEN ComponentIds(args.components, 2)
    ELSE IF args.plot_component.is_none THEN <<>>
    ELSE <<args.plot_component.v>>

\* the call asks for the characteristic plot_char of peak 0 on the parents
CharacteristicRequested ==
    /\ method = "plot_image_overlay"
    /\ args.plot_component.is_none /\ ~args.peak_id.is_none /\ ~args.plot_char.is_none

\* the call asks for a mapping onto the parent images, and the Image has the
\* catalogue and the parent images to do it
MappingRequested ==
    /\ md.has_locations /\ md.has_original_files
    /\ \/ /\ method = "plot_maps"
          /\ args.scoremap /\ args.navigation_dimension = 1
          /\ args.scores_given /\ args.factors_given
       \/ /\ method = "plot_image_overlay"
          /\ \/ CharacteristicRequested
             \/ ~args.plot_component.is_none /\ args.plot_component.v \in {0, 1}
                /\ args.plot_char.is_none

\* C11: for every parent key the mapping selects exactly the members whose
\* catalogue filename is the key, and reports their positions, their scores
\* and their characteristic values, one per selected member, in catalogue
\* order.
C11_SelectedMembersInCatalogueOrder ==
    (Ended /\ MappingRequested) =>
        \A q \in DOMAIN md.keys :
            LET key == md.keys[q]
                sel == SelectedMembers(key)
                xy == [n \in DOMAIN sel |-> locations[sel[n]].position]
            IN  Len(sel) >= 1 =>
                    /\ \A r \in DOMAIN RequestedComponents :
                           \E k \in DOMAIN scatters :
                               /\ scatters[k].parent = key
                               /\ scatters[k].xy = xy
                               /\ scatters[k].c =
                                      [n \in DOMAIN sel |->
                                          scores[RequestedComponents[r] + 1][sel[n]]]
                    /\ CharacteristicRequested =>
                           \E k \in DOMAIN scatters :
                               /\ scatters[k].parent = key
                               /\ scatters[k].xy = xy
                               /\ scatters[k].c =
                                      [n \in DOMAIN sel |->
                                          peak_chars[sel[n]][args.plot_char.v + 1]]

\* C12: on an Image without origin/location catalogue a call of
\* plot_image_overlay ends in a controlled way: it returns, without an
\* exception and without an overlay.
C12_NoProvenanceIsControlled ==
    (method = "plot_image_overlay" /\ Ended
        /\ ~md.has_locations /\ ~md.has_original_files) =>
        (ppc = "done" /\ perr = "none" /\ scatters = <<>>)

\* C13: a call of plot_cell_overlays that selects a component succeeds for
\* every id in [0, column count), the last column included, and fails with an
\* index error for the column count itself and for every other id outside
\* the range, a negative one included.
C13_ComponentIdIsValidated ==
    (method = "plot_cell_overlays" /\ Ended /\ ~args.plot_component.is_none) =>
        IF args.plot_component.v \in 0..1
        THEN ppc = "done" /\ perr = "none"
        ELSE ppc = "raised" /\ perr \in {"IndexError", "ComponentIndexError"}

\* column col of the factor matrix computed on the peak characteristics of two
\* target peaks: 14 rows
PeakFactor(col) == [row \in 0..13 |-> 100 * (col + 1) + row]

ShiftOverlays == {k \in DOMAIN scatters : "shifts" \in DOMAIN scatters[k]}

PointOverlays == {k \in DOMAIN scatters : "c" \in DOMAIN scatters[k]}

\* the Image has the catalogue and the parent images
ProvenanceAvailable == md.has_locations /\ md.has_original_files

\* C24: a call of plot_image_overlay with a peak_id returns, has drawn shift
\* overlays if and only if plot_shift is True, and with a plot_char and
\* plot_shift False has drawn the characteristic overlay.
C24_ShiftOverlaysIffPlotShift ==
    (method = "plot_image_overlay" /\ Ended /\ ProvenanceAvailable
        /\ args.plot_component.is_none /\ ~args.peak_id.is_none
        /\ (args.plot_shift \/ ~args.plot_char.is_none)) =>
        /\ ppc = "done"
        /\ args.plot_shift <=> (ShiftOverlays # {})
        /\ (~args.plot_char.is_none /\ ~args.plot_shift) => (PointOverlays # {})

\* C25: a call of plot_image_overlay with an integer plot_component (0
\* included) and no plot_char is not rejected: it returns with one score
\* overlay per parent image.
C25_ComponentZeroIsAComponent ==
    (method = "plot_image_overlay" /\ Ended /\ ProvenanceAvailable
        /\ ~args.plot_component.is_none /\ args.plot_component.v \in 0..1
        /\ args.plot_char.is_none /\ args.peak_id.is_none) =>
        /\ ppc = "done" /\ perr = "none"
        /\ \A q \in DOMAIN md.keys :
               \E k \in PointOverlays : scatters[k].parent = md.keys[q]

\* C29: in plot_maps the score-map branch is entered only with a parent
\* mapping bound: no call ends by reading the unbound name parents.
C29_OverlayBranchHasParents ==
    (method = "plot_maps") =>
        /\ (ppc = "overlay") => parents.bound
        /\ perr # "UnboundLocalError"

\* ------------------------------------------------- peak_char_stack: claims
\* the peak width plot_cell_overlays is to search the average frame with
WidthInForce == IF peak_width.is_none THEN DefaultPeakWidth ELSE peak_width.v

\* C21: after peak_char_stack with target_locations omitted the Image records
\* the peaks found on the average frame with the given peak width, not None;
\* a plot_cell_overlays call that follows ends without an exception and leaves
\* recorded the set found on the average frame with the peak width in force,
\* 10 only when no width was ever set.
C21_TargetsComeFromTheAverageFrame ==
    /\ (char_call.called /\ char_call.args.target_locations.is_none) =>
           target_locations = GivenLocations(found_on_average[char_call.args.peak_width])
    /\ (method = "plot_cell_overlays" /\ ppc \in {"done", "raised"}
           /\ (char_call.called => char_call.args.target_locations.is_none)) =>
           /\ perr = "none"
           /\ target_locations = GivenLocations(found_on_average[WidthInForce])
           /\ peak_width.is_none <=> ~char_call.called

ChannelSum(row, i1, i2) == SumSeq([k \in 1..(i2 - i1) |-> row[i1 + k]])

\* v is the mean of the channels i1 <= c < i2 of row, divided by the axis
\* scale when the signal is binned, and is one number
IsScaledMean(v, row) ==
    LET a == estimate.args
        s == IF signal.binned THEN signal.scale ELSE 1
    IN  /\ ~v.per_channel
        /\ v.num * (a.i2 - a.i1) * s = ChannelSum(row, a.i1, a.i2) * v.den

====
